---- MODULE Spec2Model ----
(***************************************************************************)
(* parse_tweet (twitter_text/parse_tweet.py): the weighted-length scan of  *)
(* a text, one loop iteration per step.  A text is a sequence of Unicode   *)
(* code points (integers); indices are 0-based as in the source, so the    *)
(* code point at index i of s is s[i + 1].                                 *)
(***************************************************************************)
EXTENDS Integers, Sequences, FiniteSets, TLC

\* ------------------------------------------------------------------ bounds
MaxLen == 3
MaxBudget == 2

\* ------------------------------------------------------- sampled code points
\* The code points the texts are drawn from, by their Unicode values.
CP ==
  [ h      |-> 104,      \* LATIN SMALL LETTER H, opens a URL match in this model
    hash   |-> 35,       \* NUMBER SIGN, base of a keycap emoji
    e      |-> 101,      \* LATIN SMALL LETTER E
    acute  |-> 769,      \* U+0301 COMBINING ACUTE ACCENT
    eacute |-> 233,      \* U+00E9, NFC of <e, U+0301>
    gha    |-> 3907,     \* U+0F43 TIBETAN LETTER GHA, NFC is <U+0F42, U+0FB7>
    ga     |-> 3906,     \* U+0F42 TIBETAN LETTER GA
    subha  |-> 4023,     \* U+0FB7 TIBETAN SUBJOINED LETTER HA
    keycap |-> 8419,     \* U+20E3 COMBINING ENCLOSING KEYCAP
    bom    |-> 65534,    \* U+FFFE, an invalid character
    mask   |-> 128567,   \* U+1F637 FACE WITH MEDICAL MASK
    tone   |-> 127997 ]  \* U+1F3FD EMOJI MODIFIER FITZPATRICK TYPE-4

InputChars ==
  { CP.h, CP.hash, CP.e, CP.acute, CP.eacute, CP.gha, CP.keycap, CP.bom,
    CP.mask, CP.tone }

RECURSIVE SeqsUpTo(_, _)
SeqsUpTo(S, n) ==
  IF n = 0 THEN { << >> }
  ELSE LET shorter == SeqsUpTo(S, n - 1)
       IN  shorter \cup { Append(s, x) : s \in { t \in shorter : Len(t) = n - 1 }, x \in S }

Texts == SeqsUpTo(InputChars, MaxLen)

\* ------------------------------------------------------------ configuration
\* The ranges of the default configuration, with the weight as a parameter.
Ranges(w) ==
  << [start |-> 0,    end |-> 4351, weight |-> w],
     [start |-> 8192, end |-> 8205, weight |-> w],
     [start |-> 8208, end |-> 8223, weight |-> w],
     [start |-> 8242, end |-> 8247, weight |-> w] >>

\* <<scale, weight of the ranges, default_weight>>: the default configuration
\* (100, 100, 200) scaled down, one whose weights are no multiples of the
\* scale, and one of scale 1.
WeightProfiles == { <<2, 2, 4>>, <<2, 1, 3>>, <<1, 1, 2>> }

TransformedUrlLengths == { 2 }

Configs ==
  { [ scale                     |-> p[1],
      default_weight            |-> p[3],
      ranges                    |-> Ranges(p[2]),
      max_weighted_tweet_length |-> m,
      transformed_url_length    |-> u,
      emoji_parsing_enabled     |-> b ] :
    p \in WeightProfiles, m \in 1..MaxBudget, u \in TransformedUrlLengths,
    b \in BOOLEAN }

\* ------------------------------------------------------------------ helpers
At(s, i) == s[i + 1]

\* Python's s[i:j] for 0 <= i, with j clamped to len(s).
Slice(s, i, j) == SubSeq(s, i + 1, IF j > Len(s) THEN Len(s) ELSE j)

\* unicodedata.normalize('NFC', text) on the sampled code points: canonical
\* decomposition, then canonical composition.  U+0F43 is excluded from
\* composition, so its decomposition stays; U+0301 is the only character of
\* the sample with a non-zero combining class, so no reordering happens.
Decompose(c) ==
  IF c = CP.eacute THEN << CP.e, CP.acute >>
  ELSE IF c = CP.gha THEN << CP.ga, CP.subha >>
  ELSE << c >>

RECURSIVE DecomposeAll(_)
DecomposeAll(s) ==
  IF s = << >> THEN << >> ELSE Decompose(Head(s)) \o DecomposeAll(Tail(s))

RECURSIVE ComposeAll(_)
ComposeAll(s) ==
  IF Len(s) < 2 THEN s
  ELSE IF s[1] = CP.e /\ s[2] = CP.acute
       THEN << CP.eacute >> \o ComposeAll(SubSeq(s, 3, Len(s)))
       ELSE << s[1] >> \o ComposeAll(Tail(s))

NFC(s) == ComposeAll(DecomposeAll(s))

normalize_identity(text) == text
normalize(text) == NFC(text)

\* str.encode('utf-16'): a 2-byte byte-order mark, then 2 bytes per code unit;
\* a code point above U+FFFF takes two code units.
Utf16Units(c) == IF c > 65535 THEN 2 ELSE 1

RECURSIVE encode_utf16_len(_)
encode_utf16_len(s) ==
  IF s = << >> THEN 2 ELSE 2 * Utf16Units(Head(s)) + encode_utf16_len(Tail(s))

count_utf16_bytes(s) == (encode_utf16_len(s) \div 2) - 1

\* get_character_weight: the weight of the first range holding the code point,
\* else default_weight.
RECURSIVE RangeWeight(_, _, _, _)
RangeWeight(c, ranges, i, dflt) ==
  IF i > Len(ranges) THEN dflt
  ELSE IF ranges[i].start <= c /\ c <= ranges[i].end THEN ranges[i].weight
       ELSE RangeWeight(c, ranges, i + 1, dflt)

get_character_weight(c, options) ==
  RangeWeight(c, options.ranges, 1, options.default_weight)

\* has_invalid_characters on a string of at most one code point:
\* U+FFFE, U+FEFF, U+FFFF and the bidirectional marks U+202A..U+202E.
InvalidChars == { 65534, 65279, 65535 } \cup (8234..8238)

has_invalid_characters(s) == \E i \in 1..Len(s) : s[i] \in InvalidChars

\* extract_urls_with_indices: a URL match is the opening code point followed
\* by the longest non-empty run of URL body code points; the matches are
\* ordered, do not overlap and lie within the text.
UrlBody == { CP.e, CP.eacute, CP.mask, CP.tone }

RECURSIVE RunEnd(_, _, _)
RunEnd(s, i, S) ==
  IF i < Len(s) /\ At(s, i) \in S THEN RunEnd(s, i + 1, S) ELSE i

RECURSIVE UrlsFrom(_, _)
UrlsFrom(s, i) ==
  IF i >= Len(s) THEN << >>
  ELSE IF At(s, i) = CP.h /\ RunEnd(s, i + 1, UrlBody) > i + 1
       THEN LET j == RunEnd(s, i + 1, UrlBody)
            IN  << [url |-> Slice(s, i, j), indices |-> << i, j >>] >>
                  \o UrlsFrom(s, j)
       ELSE UrlsFrom(s, i + 1)

extract_urls_with_indices(s) == UrlsFrom(s, 0)

\* The emoji pattern: the length of the match starting at index i, 0 for none.
\* An emoji with a skin-tone modifier and a keycap sequence are two code
\* points long.
EmojiMatchLen(s, i) ==
  LET c == At(s, i)
      d == IF i + 1 < Len(s) THEN At(s, i + 1) ELSE 0
  IN  IF c = CP.mask /\ d = CP.tone THEN 2
      ELSE IF c \in { CP.mask, CP.tone } THEN 1
      ELSE IF c = CP.hash /\ d = CP.keycap THEN 2
      ELSE 0

RECURSIVE EmojisFrom(_, _)
EmojisFrom(s, i) ==
  IF i >= Len(s) THEN << >>
  ELSE LET k == EmojiMatchLen(s, i)
       IN  IF k > 0
           THEN << [emoji |-> Slice(s, i, i + k), indices |-> << i, i + k >>] >>
                  \o EmojisFrom(s, i + k)
           ELSE EmojisFrom(s, i + 1)

extract_emojis_with_indices(s) == EmojisFrom(s, 0)

transform_entities_to_hash(entities) ==
  [ a \in { entities[n].indices[1] : n \in 1..Len(entities) } |->
      CHOOSE x \in { entities[n] : n \in 1..Len(entities) } : x.indices[1] = a ]

\* ------------------------------------------------------------ the scan loop
\* The loop's locals as a record, for the operators that compute one iteration.
\* s.char_index is an index of normalized_text at the head of the loop.

\* if char_index in url_entities_map: the flat URL weight, skip to the URL's
\* last code point.
UrlBranch_noskip(um, o, s) ==
  [s EXCEPT !.weighted_length = @ + o.transformed_url_length * o.scale]
UrlBranch(um, o, s) ==
  LET url == um[s.char_index].url
  IN  [s EXCEPT !.weighted_length = @ + o.transformed_url_length * o.scale,
                !.char_index = @ + Len(url) - 1]

\* elif emoji_parsing_enabled and char_index in emoji_entities_map: the weight
\* of emoji[0], skip to the emoji's last code point.
EmojiBranch_noskip(em, o, s) ==
  [s EXCEPT !.weighted_length = @ + get_character_weight(At(em[s.char_index].emoji, 0), o)]
EmojiBranch(em, o, s) ==
  LET emoji == em[s.char_index].emoji
  IN  [s EXCEPT !.weighted_length = @ + get_character_weight(At(emoji, 0), o),
                !.char_index = @ + Len(emoji) - 1]

\* else: the weight of the code point at char_index.
CharBranch_default(nt, o, s) ==
  [s EXCEPT !.weighted_length = @ + o.default_weight]
CharBranch(nt, o, s) ==
  [s EXCEPT !.weighted_length = @ + get_character_weight(At(nt, s.char_index), o)]

\* The rest of the iteration: the validity check, the boundary update and the
\* increment.
LoopTail_recheck(nt, o, s) ==
  LET v == ~ has_invalid_characters(Slice(nt, s.char_index, s.char_index + 1))
  IN  [ weighted_length     |-> s.weighted_length,
        valid               |-> v,
        valid_display_index |->
          IF v /\ s.weighted_length <= o.max_weighted_tweet_length * o.scale
          THEN s.char_index ELSE s.valid_display_index,
        char_index          |-> s.char_index + 1 ]
LoopTail(nt, o, s) ==
  LET v == IF s.valid
           THEN ~ has_invalid_characters(Slice(nt, s.char_index, s.char_index + 1))
           ELSE s.valid
  IN  [ weighted_length     |-> s.weighted_length,
        valid               |-> v,
        valid_display_index |->
          IF v /\ s.weighted_length <= o.max_weighted_tweet_length * o.scale
          THEN s.char_index ELSE s.valid_display_index,
        char_index          |-> s.char_index + 1 ]

\* One whole iteration.
Iteration(nt, um, em, o, s) ==
  LoopTail(nt, o,
    IF s.char_index \in DOMAIN um THEN UrlBranch(um, o, s)
    ELSE IF o.emoji_parsing_enabled /\ s.char_index \in DOMAIN em
         THEN EmojiBranch(em, o, s)
         ELSE CharBranch(nt, o, s))

RECURSIVE RunLoop(_, _, _, _, _)
RunLoop(nt, um, em, o, s) ==
  IF s.char_index < Len(nt) THEN RunLoop(nt, um, em, o, Iteration(nt, um, em, o, s))
  ELSE s

InitialLocals ==
  [ weighted_length |-> 0, valid_display_index |-> 0, valid |-> TRUE,
    char_index |-> 0 ]

\* ------------------------------------------------------------- after the loop
\* int(weighted_length / scale): the weights and the scale are non-negative
\* here, where truncation and floor agree.
Descale(wl, o) == wl \div o.scale

\* valid and 0 < weighted_length <= max_weighted_tweet_length
ResultValid_noLower(v, wl, o) == v /\ wl <= o.max_weighted_tweet_length
ResultValid(v, wl, o) == v /\ 0 < wl /\ wl <= o.max_weighted_tweet_length

\* The ParsedResult built from the locals the loop left.
ParsedResult(t, nt, o, s) ==
  LET wl == Descale(s.weighted_length, o)
      valid_display_offset ==
        count_utf16_bytes(Slice(nt, 0, s.valid_display_index + 1)) - 1
      normalization_offset == count_utf16_bytes(t) - count_utf16_bytes(nt)
  IN  [ weightedLength    |-> wl,
        valid             |-> ResultValid(s.valid, wl, o),
        permillage        |-> (wl * 1000) \div o.max_weighted_tweet_length,
        validRangeStart   |-> 0,
        validRangeEnd     |-> valid_display_offset + normalization_offset,
        displayRangeStart |-> 0,
        displayRangeEnd   |->
          IF count_utf16_bytes(t) > 0 THEN count_utf16_bytes(t) - 1 ELSE 0 ]

\* parse_tweet as a function of its arguments.
ParseTweet(t, o) ==
  LET nt == normalize(t)
      um == transform_entities_to_hash(extract_urls_with_indices(nt))
      em == transform_entities_to_hash(extract_emojis_with_indices(nt))
  IN  ParsedResult(t, nt, o, RunLoop(nt, um, em, o, InitialLocals))

\* -------------------------------------------------------------------- state
VARIABLES
  text,                 \* the argument
  options,              \* the argument
  normalized_text,
  url_entities_map,
  emoji_entities_map,
  weighted_length,
  valid_display_index,
  valid,
  char_index,
  pc,                   \* "loop": at the head of the while loop; "done": returned
  result,               \* the ParsedResult, once returned
  trace                 \* history: char_index at each loop head reached so far
                        \* |-> weighted_length there

vars ==
  << text, options, normalized_text, url_entities_map, emoji_entities_map,
     weighted_length, valid_display_index, valid, char_index, pc, result, trace >>

NoResult == [ valid |-> FALSE, weightedLength |-> 0, permillage |-> 0,
              validRangeStart |-> 0, validRangeEnd |-> 0,
              displayRangeStart |-> 0, displayRangeEnd |-> 0 ]

Locals ==
  [ weighted_length |-> weighted_length,
    valid_display_index |-> valid_display_index,
    valid |-> valid, char_index |-> char_index ]

\* The call, up to the head of the loop.
Init ==
  /\ text \in Texts
  /\ options \in Configs
  /\ normalized_text = normalize(text)
  /\ url_entities_map =
       transform_entities_to_hash(extract_urls_with_indices(normalized_text))
  /\ emoji_entities_map =
       transform_entities_to_hash(extract_emojis_with_indices(normalized_text))
  /\ weighted_length = 0
  /\ valid_display_index = 0
  /\ valid = TRUE
  /\ char_index = 0
  /\ pc = "loop"
  /\ result = NoResult
  /\ trace = (0 :> 0)

Assign(s) ==
  /\ weighted_length' = s.weighted_length
  /\ valid_display_index' = s.valid_display_index
  /\ valid' = s.valid
  /\ char_index' = s.char_index
  /\ trace' = (s.char_index :> s.weighted_length) @@ trace
  /\ UNCHANGED << text, options, normalized_text, url_entities_map,
                  emoji_entities_map, pc, result >>

InLoop == pc = "loop" /\ char_index < Len(normalized_text)

UrlStep ==
  /\ InLoop
  /\ char_index \in DOMAIN url_entities_map
  /\ Assign(LoopTail(normalized_text, options,
                     UrlBranch(url_entities_map, options, Locals)))

EmojiStep ==
  /\ InLoop
  /\ char_index \notin DOMAIN url_entities_map
  /\ options.emoji_parsing_enabled
  /\ char_index \in DOMAIN emoji_entities_map
  /\ Assign(LoopTail(normalized_text, options,
                     EmojiBranch(emoji_entities_map, options, Locals)))

CharStep ==
  /\ InLoop
  /\ char_index \notin DOMAIN url_entities_map
  /\ ~ (options.emoji_parsing_enabled /\ char_index \in DOMAIN emoji_entities_map)
  /\ Assign(LoopTail(normalized_text, options,
                     CharBranch(normalized_text, options, Locals)))

\* The loop has ended: descale, convert the offsets, return.
Return ==
  /\ pc = "loop"
  /\ ~ (char_index < Len(normalized_text))
  /\ weighted_length' = Descale(weighted_length, options)
  /\ result' = ParsedResult(text, normalized_text, options, Locals)
  /\ pc' = "done"
  /\ UNCHANGED << text, options, normalized_text, url_entities_map,
                  emoji_entities_map, valid_display_index, valid, char_index,
                  trace >>

Next == UrlStep \/ EmojiStep \/ CharStep \/ Return

Spec == Init /\ [][Next]_vars

\* ------------------------------------------------------------------ claims
Done == pc = "done"

\* The loop heads reached so far, and the positions whose character the
\* validity check has looked at (the index the branch left, one before the
\* next loop head).
Heads == DOMAIN trace
CheckedPositions == { b - 1 : b \in Heads \ {0} }

RECURSIVE SumWeights(_, _, _, _)
SumWeights(nt, a, b, o) ==
  IF a >= b THEN 0
  ELSE get_character_weight(At(nt, a), o) + SumWeights(nt, a + 1, b, o)

InsideUrl(a) ==
  \E u \in DOMAIN url_entities_map :
    u <= a /\ a < url_entities_map[u].indices[2]

AllEqual(s) == \A i \in 1..Len(s) : s[i] = s[1]

\* C1: every result has 0 <= validRangeEnd <= displayRangeEnd.
C1_RangeOrder ==
  Done => 0 <= result.validRangeEnd /\ result.validRangeEnd <= result.displayRangeEnd

C3_UrlFlatWeight ==
  \A a \in DOMAIN url_entities_map :
    LET b == url_entities_map[a].indices[2]
    IN  char_index > a =>
          /\ a \in Heads /\ b \in Heads
          /\ trace[b] = trace[a] + options.transformed_url_length * options.scale
          /\ \A i \in (a + 1)..(b - 1) : i \notin Heads

C3_Witness ==
  /\ Done
  /\ \E a \in DOMAIN url_entities_map :
       /\ url_entities_map[a].indices[2] - a = 3
       /\ trace[a + 3] = trace[a] + options.transformed_url_length * options.scale

C5_EmojiDefaultWeight ==
  options.emoji_parsing_enabled =>
    \A a \in DOMAIN emoji_entities_map :
      LET b == emoji_entities_map[a].indices[2]
      IN  (~ InsideUrl(a) /\ char_index >= b) =>
            trace[b] = trace[a] + options.default_weight

\* C6, as stated: n identical characters of weight w, no URL or emoji span,
\* n * w <= max * scale: weightedLength = n * w and valid.
IdenticalPlain ==
  /\ Len(text) >= 1
  /\ AllEqual(text)
  /\ url_entities_map = << >> /\ emoji_entities_map = << >>
  /\ Len(text) * get_character_weight(text[1], options)
       <= options.max_weighted_tweet_length * options.scale

C6_Original ==
  (Done /\ IdenticalPlain) =>
    /\ result.weightedLength = Len(text) * get_character_weight(text[1], options)
    /\ result.valid

\* C6, amended: n >= 1 identical characters of weight w that are not invalid
\* characters, in a text normalization leaves unchanged, no URL or emoji span,
\* n * w <= max * scale: weightedLength = (n * w) \div scale, and valid exactly
\* when that is positive.
C6_Amended ==
  (Done /\ IdenticalPlain /\ NFC(text) = text /\ text[1] \notin InvalidChars) =>
    /\ result.weightedLength =
         (Len(text) * get_character_weight(text[1], options)) \div options.scale
    /\ result.valid = (result.weightedLength > 0)

C6_Witness ==
  /\ Done /\ IdenticalPlain /\ NFC(text) = text /\ text[1] \notin InvalidChars
  /\ Len(text) >= 2
  /\ options.scale > 1
  /\ result.valid
  /\ result.weightedLength = Len(text)

\* C7: parse_tweet of the normalized text has the weightedLength and the
\* valid flag of parse_tweet of the text.
C7_NormalizeInvariant ==
  Done =>
    LET r == ParseTweet(NFC(text), options)
    IN  r.weightedLength = result.weightedLength /\ r.valid = result.valid

C7_Witness ==
  /\ Done
  /\ NFC(text) # text
  /\ Len(NFC(text)) # Len(text)
  /\ result.valid

\* C8: once valid is false in a scan it is false at every later step and in
\* the result.
C8_ValidMonotone ==
  [][ (pc = "loop" /\ ~ valid) => (~ valid' /\ (pc' = "done" => ~ result'.valid)) ]_vars

C8_Witness ==
  /\ Done
  /\ Len(normalized_text) >= 2
  /\ At(normalized_text, 0) \in InvalidChars
  /\ \A i \in 1..(Len(normalized_text) - 1) : At(normalized_text, i) \notin InvalidChars
  /\ ~ valid /\ ~ result.valid
  /\ result.weightedLength <= options.max_weighted_tweet_length

\* C9: validRangeEnd is the number of UTF-16 code units of the valid part of
\* the original text minus one, the valid part being the longest prefix of the
\* text without an invalid character and within the budget (stated here for
\* the texts without a URL or emoji span whose valid part is not empty).
PrefixOk(p) ==
  /\ \A i \in 1..Len(p) : p[i] \notin InvalidChars
  /\ ParseTweet(p, options).weightedLength <= options.max_weighted_tweet_length

ValidPart ==
  LET n == CHOOSE k \in 0..Len(text) :
             /\ PrefixOk(SubSeq(text, 1, k))
             /\ \A j \in (k + 1)..Len(text) : ~ PrefixOk(SubSeq(text, 1, j))
  IN  SubSeq(text, 1, n)

C9_ValidRangeEnd ==
  ( /\ Done
    /\ url_entities_map = << >> /\ emoji_entities_map = << >>
    /\ ValidPart # << >> ) =>
    result.validRangeEnd = count_utf16_bytes(ValidPart) - 1

\* C10: a non-empty text that is valid has validRangeEnd = displayRangeEnd.
C10_ValidCoversText ==
  (Done /\ text # << >> /\ result.valid) =>
    result.validRangeEnd = result.displayRangeEnd

====
